---- MODULE Spec2Model ----
(***************************************************************************)
(* A model of the ai-code-reviewer pipeline: CodeReviewBot.getDiffContent, *)
(* CodeReviewBot.applyModifications (src/lib/codeReviewBot.js) and the     *)
(* orchestrator main (src/bin/cli.js).                                     *)
(*                                                                         *)
(* Text (file contents, snippets, diffs, answers) is a sequence of         *)
(* one-character strings, so that the string operations of the code        *)
(* (replace, trim, split, indexOf, RegExp) are computed character by       *)
(* character.  File paths are TLA+ strings, joined with \o.                *)
(***************************************************************************)
EXTENDS Integers, Sequences, FiniteSets, TLC

VARIABLES
  edit,          \* one run of the edit step of applyModifications on given inputs
  fs,            \* the filesystem: absolute path -> content, or NoFile
  mods,          \* review.modifications, the batch applyModifications is given
  backupSuffix,  \* the backupSuffix argument of applyModifications
  i,             \* 1-based position of the loop of applyModifications in the batch
  pc,            \* the await the current iteration is suspended at
  content,       \* the content read at the start of the current iteration
  newContent,    \* the content computed by the edit step of the current iteration
  att,           \* what the current iteration has done so far (observation)
  results,       \* the outcome of every finished iteration (observation)
  trace,         \* the file operations issued so far, in order (observation)
  git,           \* the repository: the text each git diff invocation prints
  dpc,           \* the await getDiffContent is suspended at
  stagedDiff,    \* getDiffContent: the staged diff, once retrieved
  fullDiff,      \* getDiffContent: stagedDiff + unstagedDiff, once computed
  diffResult,    \* what getDiffContent returned or threw
  gitCalls,      \* the git invocations issued so far, in order (observation)
  env,           \* main: the environment and the command-line flags
  mpc,           \* main: the await main is suspended at
  review,        \* main: the review generateReview returned
  answer,        \* main: the answer typed at the confirmation prompt
  calls,         \* main: the pipeline steps started so far, in order (observation)
  exit           \* main: how the process ended

editVars == <<edit>>
applyVars == <<fs, mods, backupSuffix, i, pc, content, newContent, att, results, trace>>
diffVars == <<git, dpc, stagedDiff, fullDiff, diffResult, gitCalls>>
mainVars == <<env, mpc, review, answer, calls, exit>>
vars == <<edit, fs, mods, backupSuffix, i, pc, content, newContent, att, results, trace,
          git, dpc, stagedDiff, fullDiff, diffResult, gitCalls,
          env, mpc, review, answer, calls, exit>>

(***************************************************************************)
(* JavaScript values that are not text.                                    *)
(***************************************************************************)
Undefined == <<"<undefined>">>
Null == <<"<null>">>
\* the content of a path that holds no file
NoFile == <<"<ENOENT>">>

(***************************************************************************)
(* String primitives of the JavaScript runtime, as the code uses them.     *)
(***************************************************************************)
WhiteSpace == {" ", "\t", "\n", "\r"}

LineTerminators == {"\n", "\r"}

RECURSIVE ReplaceCRLF(_)
ReplaceCRLF(s) ==
  IF s = <<>> THEN <<>>
  ELSE IF Len(s) >= 2 /\ s[1] = "\r" /\ s[2] = "\n"
       THEN <<"\n">> \o ReplaceCRLF(SubSeq(s, 3, Len(s)))
       ELSE <<s[1]>> \o ReplaceCRLF(Tail(s))

RECURSIVE TrimStart(_)
TrimStart(s) ==
  IF s # <<>> /\ s[1] \in WhiteSpace THEN TrimStart(Tail(s)) ELSE s

RECURSIVE TrimEnd(_)
TrimEnd(s) ==
  IF s # <<>> /\ s[Len(s)] \in WhiteSpace
  THEN TrimEnd(SubSeq(s, 1, Len(s) - 1))
  ELSE s

Trim(s) == TrimEnd(TrimStart(s))

StartsWith(s, prefix) ==
  /\ Len(prefix) <= Len(s)
  /\ SubSeq(s, 1, Len(prefix)) = prefix

\* pat occurs in s at the 1-based position p
MatchesAt(s, pat, p) ==
  /\ p + Len(pat) - 1 <= Len(s)
  /\ SubSeq(s, p, p + Len(pat) - 1) = pat

\* String.prototype.indexOf: 0-based index of the first occurrence, or -1
IndexOf(s, pat) ==
  IF \E p \in 1..(Len(s) + 1) : MatchesAt(s, pat, p)
  THEN (CHOOSE p \in 1..(Len(s) + 1) :
          /\ MatchesAt(s, pat, p)
          /\ \A q \in 1..(p - 1) : ~MatchesAt(s, pat, q)) - 1
  ELSE -1

Includes(s, pat) == IndexOf(s, pat) # -1

\* String.prototype.split('\n')
RECURSIVE SplitLines(_)
SplitLines(s) ==
  LET k == IndexOf(s, <<"\n">>)
  IN  IF k = -1 THEN <<s>>
      ELSE <<SubSeq(s, 1, k)>> \o SplitLines(SubSeq(s, k + 2, Len(s)))

\* Array.prototype.join('\n')
RECURSIVE JoinLines(_)
JoinLines(ls) ==
  IF ls = <<>> THEN <<>>
  ELSE IF Len(ls) = 1 THEN ls[1]
  ELSE ls[1] \o <<"\n">> \o JoinLines(Tail(ls))

(***************************************************************************)
(* Normalisation of the snippets (codeReviewBot.js:258-262).               *)
(***************************************************************************)
\* .replace(/^\+/, ''): one leading + is removed
StripLeadingPlus(s) ==
  IF s # <<>> /\ s[1] = "+" THEN Tail(s) ELSE s

NormalizeOriginal(original) ==
  StripLeadingPlus(Trim(ReplaceCRLF(original)))

NormalizeSuggested(suggested) ==
  IF suggested = Undefined THEN <<>> ELSE Trim(ReplaceCRLF(suggested))

(***************************************************************************)
(* The deletion branch (codeReviewBot.js:271-287).                         *)
(***************************************************************************)
DeleteLineKeepTail(line, normalizedOriginal) ==
  IF Includes(line, normalizedOriginal)
  THEN LET index == IndexOf(line, normalizedOriginal)
           rest == SubSeq(line, 1, index)
                     \o SubSeq(line, index + Len(normalizedOriginal) + 1, Len(line))
       IN  IF TrimEnd(rest) = <<>> THEN Null ELSE TrimEnd(rest)
  ELSE line

DeleteLine(line, normalizedOriginal) ==
  IF Includes(line, normalizedOriginal)
  THEN LET index == IndexOf(line, normalizedOriginal)
           beforeText == TrimEnd(SubSeq(line, 1, index))
       IN  IF beforeText = <<>> THEN Null ELSE beforeText
  ELSE line

DeleteEdit(normalizedContent, normalizedOriginal) ==
  LET lines == SplitLines(normalizedContent)
      mapped == [j \in 1..Len(lines) |-> DeleteLine(lines[j], normalizedOriginal)]
  IN  JoinLines(SelectSeq(mapped, LAMBDA line : line # Null))

(***************************************************************************)
(* The replacement branch (codeReviewBot.js:8-10, 288-292):                *)
(* new RegExp(escapeRegExp(normalizedOriginal) + '.*$', 'gm') and          *)
(* String.prototype.replace with a replacement string.                     *)
(***************************************************************************)
RegExpSpecial ==
  {".", "*", "+", "?", "^", "$", "{", "}", "(", ")", "|", "[", "]", "\\"}

RECURSIVE EscapeRegExp(_)
EscapeRegExp(string) ==
  IF string = <<>> THEN <<>>
  ELSE (IF string[1] \in RegExpSpecial
        THEN <<"\\", string[1]>> ELSE <<string[1]>>)
       \o EscapeRegExp(Tail(string))

\* The atoms of a pattern source made of escaped characters, literal
\* characters and dots (the sources escapeRegExp can produce, and a bare dot).
RECURSIVE ParseAtoms(_)
ParseAtoms(source) ==
  IF source = <<>> THEN <<>>
  ELSE IF source[1] = "\\" /\ Len(source) >= 2
       THEN <<[kind |-> "char", ch |-> source[2]]>>
              \o ParseAtoms(SubSeq(source, 3, Len(source)))
  ELSE IF source[1] = "."
       THEN <<[kind |-> "dot", ch |-> "."]>> \o ParseAtoms(Tail(source))
  ELSE <<[kind |-> "char", ch |-> source[1]]>> \o ParseAtoms(Tail(source))

\* the atoms before the trailing .*$ of the pattern source
AnchorAtoms(source) == ParseAtoms(SubSeq(source, 1, Len(source) - 3))

AtomMatches(atom, c) ==
  IF atom.kind = "dot" THEN c \notin LineTerminators ELSE c = atom.ch

\* the position after the atoms matched at p, or 0 when they do not match
RECURSIVE MatchAtoms(_, _, _)
MatchAtoms(atoms, text, p) ==
  IF atoms = <<>> THEN p
  ELSE IF p <= Len(text) /\ AtomMatches(atoms[1], text[p])
       THEN MatchAtoms(Tail(atoms), text, p + 1)
       ELSE 0

\* .*$ under the m flag: greedy up to the next line terminator or the end
RECURSIVE DotStarEnd(_, _)
DotStarEnd(text, p) ==
  IF p > Len(text) \/ text[p] \in LineTerminators THEN p
  ELSE DotStarEnd(text, p + 1)

\* the position after the match of the whole pattern at p, or 0
ExecAt(atoms, text, p) ==
  LET e == MatchAtoms(atoms, text, p)
  IN  IF e = 0 THEN 0 ELSE DotStarEnd(text, e)

\* GetSubstitution: $$ and $& in a replacement string.  The pattern has no
\* capture groups, so $1.. and $<name> stay as written; the prefix and suffix
\* patterns (a dollar followed by a backquote or a quote) are outside the
\* alphabet of the inputs.
RECURSIVE GetSubstitution(_, _, _, _)
GetSubstitution(replacement, text, p, e) ==
  IF replacement = <<>> THEN <<>>
  ELSE IF replacement[1] = "$" /\ Len(replacement) >= 2
          /\ replacement[2] \in {"$", "&"}
       THEN (IF replacement[2] = "$" THEN <<"$">> ELSE SubSeq(text, p, e - 1))
            \o GetSubstitution(SubSeq(replacement, 3, Len(replacement)), text, p, e)
       ELSE <<replacement[1]>> \o GetSubstitution(Tail(replacement), text, p, e)

\* String.prototype.replace with a global regular expression, from position p
RECURSIVE ReplaceFrom(_, _, _, _)
ReplaceFrom(atoms, text, replacement, p) ==
  IF p > Len(text) + 1 THEN <<>>
  ELSE LET e == ExecAt(atoms, text, p)
           here == IF p <= Len(text) THEN <<text[p]>> ELSE <<>>
       IN  IF e = 0 THEN here \o ReplaceFrom(atoms, text, replacement, p + 1)
           ELSE IF e > p
                THEN GetSubstitution(replacement, text, p, e)
                       \o ReplaceFrom(atoms, text, replacement, e)
           ELSE GetSubstitution(replacement, text, p, e) \o here
                  \o ReplaceFrom(atoms, text, replacement, p + 1)

ReplaceEdit(normalizedContent, normalizedOriginal, normalizedSuggested) ==
  LET source == EscapeRegExp(normalizedOriginal) \o <<".", "*", "$">>
  IN  ReplaceFrom(AnchorAtoms(source), normalizedContent, normalizedSuggested, 1)

\* codeReviewBot.js:269-292
EditContent(normalizedContent, normalizedOriginal, normalizedSuggested) ==
  IF normalizedSuggested = <<>>
  THEN DeleteEdit(normalizedContent, normalizedOriginal)
  ELSE ReplaceEdit(normalizedContent, normalizedOriginal, normalizedSuggested)

(***************************************************************************)
(* Inputs of the edit step.                                                *)
(***************************************************************************)
MaxEditLines == 3

LinePool ==
  { <<>>,
    <<"a">>,
    <<"b", " ", "a">>,
    <<" ", "a">>,
    <<"a", " ", "b">>,
    <<".">>,
    <<"b", "\r">> }

RECURSIVE LineSeqs(_)
LineSeqs(n) ==
  IF n = 0 THEN {<<>>}
  ELSE LET shorter == LineSeqs(n - 1)
       IN  shorter \union {Append(ls, l) : ls \in {x \in shorter : Len(x) = n - 1},
                                           l \in LinePool}

OriginalPool ==
  { <<"a">>,
    <<"+", "a">>,
    <<" ", "a", "\r", "\n">>,
    <<".">>,
    <<"b">>,
    <<"z">>,
    <<>>,
    <<"a", "\n", "b">> }

SuggestedPool ==
  { Undefined,
    <<>>,
    <<" ">>,
    <<"c">>,
    <<"a">>,
    <<"c", "\r", "\n", "d">>,
    <<"$", "$">>,
    <<"$", "&", "c">> }

(***************************************************************************)
(* askForConfirmation (cli.js:10-22) and the state of main outside a run.  *)
(***************************************************************************)
\* an error message is the sequence of its parts: the text the code writes
\* and, after it, the message of the error it wraps
Running == [code |-> -1, message |-> <<>>]

Exited(code, message) == [code |-> code, message |-> message]

UpperCase == {"N", "O", "Y", "E", "S"}

LowerOf(c) ==
  CASE c = "N" -> "n"
    [] c = "O" -> "o"
    [] c = "Y" -> "y"
    [] c = "E" -> "e"
    [] c = "S" -> "s"
    [] OTHER -> c

\* String.prototype.toLowerCase
ToLowerCase(s) == [n \in 1..Len(s) |-> LowerOf(s[n])]

\* cli.js:19, the value askForConfirmation resolves with
Proceed(typed) == ToLowerCase(typed) # <<"n">>

\* lines the respondent may type at the prompt
AnswerPool ==
  { <<>>, <<"y">>, <<"Y">>, <<"n">>, <<"N">>, <<"n", "o">>, <<"y", "e", "s">> }

\* what the analysis service does with one request: it resolves with a
\* message content that is JSON (`parsed` is what JSON.parse returns) or that
\* is not, or the call rejects with an error of some class
NoReview == [hasModifications |-> FALSE, modifications |-> <<>>]

JsonAnswer(parsed) ==
  [kind |-> "json", class |-> "", message |-> "", parsed |-> parsed]

TextAnswer ==
  [kind |-> "text", class |-> "", message |-> "", parsed |-> NoReview]

Rejection(class, message) ==
  [kind |-> "rejects", class |-> class, message |-> message, parsed |-> NoReview]

MainIdle ==
  /\ env = [apiKey |-> FALSE, apply |-> FALSE, docs |-> FALSE,
            service |-> TextAnswer, docService |-> TextAnswer]
  /\ mpc = "library"
  /\ review = Null
  /\ answer = Null
  /\ calls = <<>>
  /\ exit = Running

(***************************************************************************)
(* Paths.  A path is the sequence of its segments; path.join resolves the  *)
(* . and .. segments, and the backup path appends the suffix to the text   *)
(* of the joined path, that is to its last segment.                        *)
(***************************************************************************)
ProjectDir == <<"proj">>

RECURSIVE NormalizePath(_, _)
NormalizePath(done, rest) ==
  IF rest = <<>> THEN done
  ELSE IF rest[1] = "." THEN NormalizePath(done, Tail(rest))
  ELSE IF rest[1] = ".."
       THEN NormalizePath(IF done = <<>> THEN <<>>
                          ELSE SubSeq(done, 1, Len(done) - 1), Tail(rest))
  ELSE NormalizePath(Append(done, rest[1]), Tail(rest))

\* join(this.projectDir, mod.file)
JoinPath(dir, file) == NormalizePath(<<>>, dir \o file)

\* `${filePath}${backupSuffix}`
BackupPath(filePath, suffix) ==
  [filePath EXCEPT ![Len(filePath)] = @ \o suffix]

(***************************************************************************)
(* applyModifications (codeReviewBot.js:249-325).  One iteration of the    *)
(* loop has four awaits: the read of the file, the write of the backup,    *)
(* the write of the new content and the read-back; each either resolves    *)
(* or rejects, and a rejection is caught by the iteration's own catch.     *)
(***************************************************************************)
NewAttempt == [backupWritten |-> FALSE, targetWrites |-> 0, targetBefore |-> Null]

\* the comparison of line 295
NeverUnchanged(edited, normalizedContent) == FALSE

IsUnchanged(edited, normalizedContent) == edited = normalizedContent

\* the comparison of line 308
VerifyAgainstNormalized(verifyContent, snapshot) ==
  verifyContent = ReplaceCRLF(snapshot)

VerifyUnchanged(verifyContent, snapshot) == verifyContent = snapshot

\* what line 265 writes to the backup path
BackupOfNormalized(snapshot) == ReplaceCRLF(snapshot)

BackupData(snapshot) == snapshot

\* where the loop goes after an iteration that ended with `status`: the
\* try/catch is inside the loop body, so it goes on with the next element
ContinueAbortOnFailure(idx, n, status) ==
  IF idx + 1 > n \/ status = "failed" THEN [i |-> idx + 1, pc |-> "done"]
  ELSE [i |-> idx + 1, pc |-> "read"]

Continue(idx, n, status) ==
  IF idx + 1 > n THEN [i |-> idx + 1, pc |-> "done"]
  ELSE [i |-> idx + 1, pc |-> "read"]

\* the record of a finished iteration
Outcome(status, readOk, snapshot, edited, readBack, a, files) ==
  LET filePath == JoinPath(ProjectDir, mods[i].file)
  IN  [ idx |-> i,
        status |-> status,
        readOk |-> readOk,
        snapshot |-> snapshot,
        normalized |-> IF snapshot = Null THEN Null ELSE ReplaceCRLF(snapshot),
        edited |-> edited,
        readBack |-> readBack,
        backupWritten |-> a.backupWritten,
        targetWrites |-> a.targetWrites,
        targetBefore |-> a.targetBefore,
        targetAfter |-> files[filePath],
        backupAfter |-> files[BackupPath(filePath, backupSuffix)] ]

\* the end of an iteration: its outcome is logged and the loop goes on
Finish(status, readOk, snapshot, edited, readBack, a, files) ==
  LET next == Continue(i, Len(mods), status)
  IN  /\ results' = Append(results,
                           Outcome(status, readOk, snapshot, edited, readBack, a, files))
      /\ i' = next.i
      /\ pc' = next.pc
      /\ content' = Null
      /\ newContent' = Null
      /\ att' = NewAttempt

Issue(op) == trace' = Append(trace, [k |-> i, op |-> op])

\* line 255 resolves; lines 258-262 normalise (mod.original.replace throws a
\* TypeError when the response left `original` out)
ReadOk ==
  /\ pc = "read"
  /\ LET filePath == JoinPath(ProjectDir, mods[i].file)
         a == [att EXCEPT !.targetBefore = fs[filePath]]
     IN  /\ fs[filePath] # NoFile
         /\ Issue("read")
         /\ IF mods[i].original = Undefined
            THEN Finish("failed", TRUE, fs[filePath], Null, Null, a, fs)
            ELSE /\ content' = fs[filePath]
                 /\ att' = a
                 /\ pc' = "backup"
                 /\ UNCHANGED <<i, newContent, results>>
  /\ UNCHANGED <<fs, mods, backupSuffix, editVars, diffVars, mainVars>>

\* line 255 rejects (no such file, or any other I/O error)
ReadFail ==
  /\ pc = "read"
  /\ LET filePath == JoinPath(ProjectDir, mods[i].file)
         a == [att EXCEPT !.targetBefore = fs[filePath]]
     IN  /\ Issue("read")
         /\ Finish("failed", FALSE, Null, Null, Null, a, fs)
  /\ UNCHANGED <<fs, mods, backupSuffix, editVars, diffVars, mainVars>>

\* line 265 resolves; lines 269-301 edit and test for a change
BackupOk ==
  /\ pc = "backup"
  /\ LET filePath == JoinPath(ProjectDir, mods[i].file)
         normalizedContent == ReplaceCRLF(content)
         edited == EditContent(normalizedContent,
                               NormalizeOriginal(mods[i].original),
                               NormalizeSuggested(mods[i].suggested))
         files == [fs EXCEPT ![BackupPath(filePath, backupSuffix)] = BackupData(content)]
         a == [att EXCEPT !.backupWritten = TRUE]
     IN  /\ Issue("backup")
         /\ fs' = files
         /\ IF IsUnchanged(edited, normalizedContent)
            THEN Finish("no-op", TRUE, content, edited, Null, a, files)
            ELSE /\ newContent' = edited
                 /\ att' = a
                 /\ pc' = "write"
                 /\ UNCHANGED <<i, content, results>>
  /\ UNCHANGED <<mods, backupSuffix, editVars, diffVars, mainVars>>

\* line 265 rejects
BackupFail ==
  /\ pc = "backup"
  /\ Issue("backup")
  /\ Finish("failed", TRUE, content, Null, Null, att, fs)
  /\ UNCHANGED <<fs, mods, backupSuffix, editVars, diffVars, mainVars>>

\* line 304 resolves
WriteOk ==
  /\ pc = "write"
  /\ Issue("write")
  /\ fs' = [fs EXCEPT ![JoinPath(ProjectDir, mods[i].file)] = newContent]
  /\ att' = [att EXCEPT !.targetWrites = @ + 1]
  /\ pc' = "verify"
  /\ UNCHANGED <<mods, backupSuffix, i, content, newContent, results, editVars, diffVars, mainVars>>

\* line 304 rejects
WriteFail ==
  /\ pc = "write"
  /\ Issue("write")
  /\ Finish("failed", TRUE, content, newContent, Null, att, fs)
  /\ UNCHANGED <<fs, mods, backupSuffix, editVars, diffVars, mainVars>>

\* line 307 resolves; lines 308-319 report
VerifyOk ==
  /\ pc = "verify"
  /\ LET verifyContent == fs[JoinPath(ProjectDir, mods[i].file)]
     IN  /\ verifyContent # NoFile
         /\ Issue("verify")
         /\ Finish(IF VerifyUnchanged(verifyContent, content) THEN "failed" ELSE "applied",
                   TRUE, content, newContent, verifyContent, att, fs)
  /\ UNCHANGED <<fs, mods, backupSuffix, editVars, diffVars, mainVars>>

\* line 307 rejects
VerifyFail ==
  /\ pc = "verify"
  /\ Issue("verify")
  /\ Finish("failed", TRUE, content, newContent, Null, att, fs)
  /\ UNCHANGED <<fs, mods, backupSuffix, editVars, diffVars, mainVars>>

(***************************************************************************)
(* Inputs of applyModifications: a project with one source file, and a     *)
(* batch drawn from a pool of modification requests.                       *)
(***************************************************************************)
MaxMods == 2

FilePool == {<<"f">>, <<"gone">>, <<"..", "secret">>}

SuffixPool == {"", ".backup"}

\* resolve(projectDir, 'review.md') and resolve(projectDir, 'CHANGES.md')
ReportPath == JoinPath(ProjectDir, <<"review.md">>)

DocPath == JoinPath(ProjectDir, <<"CHANGES.md">>)

AllPaths ==
  {ReportPath, DocPath}
    \union {JoinPath(ProjectDir, f) : f \in FilePool}
    \union {BackupPath(JoinPath(ProjectDir, f), s) : f \in FilePool, s \in SuffixPool}

SourceContents == { <<"a", "\n", "b">>, <<"a", "\r", "\n", "q">> }

ReplaceMod == [file |-> <<"f">>, original |-> <<"a">>, suggested |-> <<"c">>]

DeleteMod == [file |-> <<"f">>, original |-> <<"+", "b">>, suggested |-> Undefined]

NoMatchMod == [file |-> <<"f">>, original |-> <<"z">>, suggested |-> <<"c">>]

MissingFileMod == [file |-> <<"gone">>, original |-> <<"a">>, suggested |-> <<"c">>]

NoOriginalMod == [file |-> <<"f">>, original |-> Undefined, suggested |-> <<"c">>]

\* on the CRLF source the edit reproduces the content as read
SameBytesMod ==
  [file |-> <<"f">>, original |-> <<"a", "\n", "q">>,
   suggested |-> <<"a", "\r", "\r", "\n", "q">>]

\* the suggestion is the text the anchor already stands for
IdentityMod == [file |-> <<"f">>, original |-> <<"a">>, suggested |-> <<"a">>]

\* a file named relative to the project directory through its parent
TraversalMod ==
  [file |-> <<"..", "secret">>, original |-> <<"a">>, suggested |-> <<"c">>]

ModPool ==
  {ReplaceMod, DeleteMod, NoMatchMod, MissingFileMod, NoOriginalMod, SameBytesMod,
   IdentityMod, TraversalMod}

RECURSIVE Batches(_)
Batches(n) ==
  IF n = 0 THEN {<<>>}
  ELSE LET shorter == Batches(n - 1)
       IN  shorter \union {Append(b, m) : b \in {x \in shorter : Len(x) = n - 1},
                                          m \in ModPool}

\* the file system at the start: the source file of the project, and one
\* file next to the project directory
InitFiles(source) ==
  [p \in AllPaths |->
     IF p = JoinPath(ProjectDir, <<"f">>) THEN source
     ELSE IF p = <<"secret">> THEN <<"a">>
     ELSE NoFile]

\* the state at the call of applyModifications(review, suffix)
ApplyEntry(batch, suffix) ==
  /\ mods = batch
  /\ backupSuffix = suffix
  /\ i = 1
  /\ pc = IF batch = <<>> THEN "done" ELSE "read"
  /\ content = Null
  /\ newContent = Null
  /\ att = NewAttempt
  /\ results = <<>>
  /\ trace = <<>>

ApplyIdle ==
  /\ fs = [p \in AllPaths |-> NoFile]
  /\ ApplyEntry(<<>>, ".backup")

EditIdle == edit = [content |-> <<>>, original |-> <<>>, suggested |-> <<>>,
                    pc |-> "idle", newContent |-> Null]

(***************************************************************************)
(* getDiffContent (codeReviewBot.js:164-238).                              *)
(***************************************************************************)
DiffGitPrefix == <<"d", "i", "f", "f", " ", "-", "-", "g", "i", "t">>
IndexPrefix == <<"i", "n", "d", "e", "x", " ">>
OldFilePrefix == <<"-", "-", "-", " ">>
NewFilePrefix == <<"+", "+", "+", " ">>
HunkPrefix == <<"@", "@">>

\* the loop of lines 187-221, with the flag isInFile as it stands before `lines`
RECURSIVE FilterFrom(_, _)
FilterFrom(lines, isInFile) ==
  IF lines = <<>> THEN <<>>
  ELSE LET line == lines[1]
       IN  IF StartsWith(line, DiffGitPrefix)
           THEN <<line>> \o FilterFrom(Tail(lines), TRUE)
           ELSE IF \/ StartsWith(line, IndexPrefix)
                   \/ StartsWith(line, OldFilePrefix)
                   \/ StartsWith(line, NewFilePrefix)
                THEN (IF isInFile THEN <<line>> ELSE <<>>)
                       \o FilterFrom(Tail(lines), isInFile)
           ELSE IF StartsWith(line, HunkPrefix)
                THEN (IF isInFile THEN <<line>> ELSE <<>>)
                       \o FilterFrom(Tail(lines), isInFile)
           ELSE (IF /\ isInFile
                    /\ \/ StartsWith(line, <<" ">>)
                       \/ StartsWith(line, <<"+">>)
                       \/ StartsWith(line, <<"-">>)
                 THEN <<line>> ELSE <<>>)
                  \o FilterFrom(Tail(lines), isInFile)

\* a plausible slip: isInFile starts out true
FilterLinesInFileFromStart(lines) == FilterFrom(lines, TRUE)

\* lines 183-221: filteredLines for the lines of fullDiff
FilterLines(lines) == FilterFrom(lines, FALSE)

NoResult == [kind |-> "none", text |-> <<>>]
NullResult == [kind |-> "null", text |-> <<>>]
TextResult(text) == [kind |-> "text", text |-> text]
ErrorResult(message) == [kind |-> "error", text |-> message]

\* the state at the call of getDiffContent(branch)
DiffEntry ==
  /\ dpc = "staged"
  /\ stagedDiff = Null
  /\ fullDiff = Null
  /\ diffResult = NoResult
  /\ gitCalls = <<>>

\* line 167 resolves
DiffStaged ==
  /\ dpc = "staged"
  /\ gitCalls' = Append(gitCalls, "diff --cached")
  /\ stagedDiff' = git.staged
  /\ dpc' = "unstaged"
  /\ UNCHANGED <<git, fullDiff, diffResult, editVars, applyVars, mainVars>>

\* line 168 resolves; lines 171-173 combine and test, lines 182-234 filter
DiffUnstaged ==
  /\ dpc = "unstaged"
  /\ gitCalls' = Append(gitCalls, "diff")
  /\ LET full == stagedDiff \o git.unstaged
     IN  /\ fullDiff' = full
         /\ IF Trim(full) = <<>>
            THEN /\ dpc' = "branch"
                 /\ UNCHANGED diffResult
            ELSE /\ dpc' = "returned"
                 /\ diffResult' = TextResult(JoinLines(FilterLines(SplitLines(full))))
  /\ UNCHANGED <<git, stagedDiff, editVars, applyVars, mainVars>>

\* line 175 resolves; lines 176-179
DiffBranch ==
  /\ dpc = "branch"
  /\ gitCalls' = Append(gitCalls, "diff branch")
  /\ diffResult' = IF Trim(git.branch) = <<>> THEN NullResult ELSE TextResult(git.branch)
  /\ dpc' = "returned"
  /\ UNCHANGED <<git, stagedDiff, fullDiff, editVars, applyVars, mainVars>>

\* the messages of the errors a git invocation may reject with
GitErrors == {"not a git repository", "unknown revision"}

\* one of the three git invocations rejects; lines 235-237 rethrow
DiffFail ==
  /\ dpc \in {"staged", "unstaged", "branch"}
  /\ gitCalls' = Append(gitCalls, CASE dpc = "staged" -> "diff --cached"
                                    [] dpc = "unstaged" -> "diff"
                                    [] dpc = "branch" -> "diff branch")
  /\ \E cause \in GitErrors :
       diffResult' = ErrorResult(<<"Failed to get diff: ", cause>>)
  /\ dpc' = "threw"
  /\ UNCHANGED <<git, stagedDiff, fullDiff, editVars, applyVars, mainVars>>

(***************************************************************************)
(* Inputs of getDiffContent: what git prints, as newline-terminated lines. *)
(***************************************************************************)
MaxDiffLines == 3

DiffLinePool ==
  { <<"d", "i", "f", "f", " ", "-", "-", "g", "i", "t", " ", "a", "/", "f", " ", "b", "/", "f">>,
    <<"i", "n", "d", "e", "x", " ", "1", ".", ".", "2">>,
    <<"-", "-", "-", " ", "a", "/", "f">>,
    <<"@", "@", " ", "-", "1", " ", "+", "1", " ", "@", "@">>,
    <<" ", "c">>,
    <<"+", "a">>,
    <<"-", "b">>,
    <<>>,
    <<"d", "i", "f", "f", " ", "-", "-", "c", "c", " ", "f">> }

\* every line followed by a newline, as git prints them
RECURSIVE Terminated(_)
Terminated(ls) ==
  IF ls = <<>> THEN <<>> ELSE ls[1] \o <<"\n">> \o Terminated(Tail(ls))

RECURSIVE DiffLineSeqs(_)
DiffLineSeqs(n) ==
  IF n = 0 THEN {<<>>}
  ELSE LET shorter == DiffLineSeqs(n - 1)
       IN  shorter \union {Append(ls, l) : ls \in {x \in shorter : Len(x) = n - 1},
                                           l \in DiffLinePool}

BranchPool ==
  { <<>>,
    <<" ", "\n">>,
    Terminated(<< <<"d", "i", "f", "f", " ", "-", "-", "g", "i", "t", " ", "a", "/", "f", " ", "b", "/", "f">>,
                  <<"+", "a">> >>),
    Terminated(<< <<"d", "i", "f", "f", " ", "-", "-", "g", "i", "t", " ", "a", "/", "f", " ", "b", "/", "f">>,
                  <<"n", "e", "w", " ", "f", "i", "l", "e", " ", "m", "o", "d", "e", " ", "1", "0", "0", "6", "4", "4">>,
                  <<"+", "a">> >>) }

\* what one git diff invocation can print: nothing, blank lines only, or file
\* sections, the first of which opens with its header (diff --git, or
\* diff --cc for an unmerged path)
GitOutput(ls) ==
  \/ \A n \in DOMAIN ls : ls[n] = <<>>
  \/ StartsWith(ls[1], <<"d", "i", "f", "f", " ", "-", "-">>)

\* staged and unstaged diffs of at most MaxDiffLines lines together
Repository(r) ==
  \E a \in {x \in DiffLineSeqs(MaxDiffLines) : GitOutput(x)} :
    \E b \in {x \in DiffLineSeqs(MaxDiffLines - Len(a)) : GitOutput(x)},
       c \in BranchPool :
      r = [staged |-> Terminated(a), unstaged |-> Terminated(b), branch |-> c]

DiffIdle ==
  /\ git = [staged |-> <<>>, unstaged |-> <<>>, branch |-> <<>>]
  /\ dpc = "idle"
  /\ stagedDiff = Null
  /\ fullDiff = Null
  /\ diffResult = NoResult
  /\ gitCalls = <<>>

InitDiff ==
  /\ Repository(git)
  /\ DiffEntry
  /\ ApplyIdle
  /\ EditIdle
  /\ MainIdle

NextDiff ==
  \/ DiffStaged
  \/ DiffUnstaged
  \/ DiffBranch
  \/ DiffFail

SpecDiff == InitDiff /\ [][NextDiff]_vars

(***************************************************************************)
(* Properties of getDiffContent, checked under SpecDiff.                   *)
(***************************************************************************)
C7_IsHeader(line) == StartsWith(line, DiffGitPrefix)

C7_IsListed(line) ==
  \/ StartsWith(line, IndexPrefix)
  \/ StartsWith(line, OldFilePrefix)
  \/ StartsWith(line, NewFilePrefix)
  \/ StartsWith(line, HunkPrefix)
  \/ (line # <<>> /\ line[1] \in {" ", "+", "-"})

\* the rule of C7 for line j of `lines`
C7_Keeps(lines, j) ==
  \/ C7_IsHeader(lines[j])
  \/ /\ \E h \in 1..(j - 1) : C7_IsHeader(lines[h])
     /\ C7_IsListed(lines[j])

\* the lines the rule keeps, in input order
C7_Retained(lines) ==
  LET kept == SelectSeq([j \in 1..Len(lines) |-> j], LAMBDA j : C7_Keeps(lines, j))
  IN  [n \in 1..Len(kept) |-> lines[kept[n]]]

FilteredNonEmptyDiff ==
  /\ dpc = "returned"
  /\ fullDiff # Null
  /\ Trim(fullDiff) # <<>>

\* C7: when getDiffContent filters a non-empty combined diff, the returned
\* text is, joined with newlines and in input order, exactly the lines that
\* are a diff --git header, or that follow the first header and are a
\* metadata line, a hunk header or a line beginning with space, + or -.
C7_FilterRetainsExactlyListedLines ==
  FilteredNonEmptyDiff =>
    /\ diffResult.kind = "text"
    /\ diffResult.text = JoinLines(C7_Retained(SplitLines(fullDiff)))

\* the section of an unmerged path comes first: its header and its content
\* line are dropped, the diff --git header after them is kept, and so is
\* nothing of the empty last line
C7_Witness ==
  /\ FilteredNonEmptyDiff
  /\ LET lines == SplitLines(fullDiff)
     IN  /\ Len(lines) = 4
         /\ ~C7_IsHeader(lines[1])
         /\ C7_IsListed(lines[2])
         /\ C7_IsHeader(lines[3])
         /\ diffResult.text = lines[3]

\* C8: the branch diff is requested only when staged + unstaged is empty or
\* whitespace-only; when the branch diff is then empty or whitespace-only
\* too the result is null; and a result that is not null is never the empty
\* string.
C8_NullNeverEmptyString ==
  /\ (\E n \in DOMAIN gitCalls : gitCalls[n] = "diff branch") =>
       (fullDiff # Null /\ Trim(fullDiff) = <<>>)
  /\ (dpc = "returned" /\ Trim(fullDiff) = <<>> /\ Trim(git.branch) = <<>>) =>
       diffResult = NullResult
  /\ diffResult.kind = "text" => diffResult.text # <<>>

\* C9: every result other than null is the lines the filter retains of the
\* diff it came from (the combined diff, or the branch diff of the
\* fallback), joined with newlines.
C9_EveryResultIsFiltered ==
  diffResult.kind = "text" =>
    LET source == IF Trim(fullDiff) = <<>> THEN git.branch ELSE fullDiff
    IN  diffResult.text = JoinLines(C7_Retained(SplitLines(source)))

Init ==
  /\ \E source \in SourceContents : fs = InitFiles(source)
  /\ \E batch \in Batches(MaxMods), suffix \in SuffixPool : ApplyEntry(batch, suffix)
  /\ EditIdle
  /\ DiffIdle
  /\ MainIdle

Next ==
  \/ ReadOk
  \/ ReadFail
  \/ BackupOk
  \/ BackupFail
  \/ WriteOk
  \/ WriteFail
  \/ VerifyOk
  \/ VerifyFail

Spec == Init /\ [][Next]_vars

(***************************************************************************)
(* Properties of applyModifications, checked under Spec.                   *)
(***************************************************************************)
Finished == {results[k] : k \in DOMAIN results}

OpRank(op) ==
  CASE op = "read" -> 1
    [] op = "backup" -> 2
    [] op = "write" -> 3
    [] op = "verify" -> 4

\* C2: the file operations are issued attempt by attempt in input order and,
\* within an attempt, in the order read, backup, write, verify with no step
\* skipped or repeated; every finished attempt is logged once, in order; the
\* loop ends only after every modification of the batch was attempted,
\* whatever the earlier attempts ended as; an applied attempt ran all four steps.
C2_EveryModificationAttemptedInOrder ==
  /\ \A p, q \in DOMAIN trace :
       p < q => \/ trace[p].k < trace[q].k
                \/ /\ trace[p].k = trace[q].k
                   /\ OpRank(trace[p].op) < OpRank(trace[q].op)
  /\ \A p \in DOMAIN trace :
       \/ trace[p].op = "read"
       \/ /\ p > 1
          /\ trace[p - 1].k = trace[p].k
          /\ OpRank(trace[p - 1].op) = OpRank(trace[p].op) - 1
  /\ \A k \in DOMAIN results :
       /\ results[k].idx = k
       /\ results[k].status = "applied" =>
            \A op \in {"read", "backup", "write", "verify"} :
              \E p \in DOMAIN trace : trace[p] = [k |-> k, op |-> op]
  /\ Len(results) <= Len(mods)
  /\ pc # "done" => i = Len(results) + 1 /\ i <= Len(mods)
  /\ pc = "done" =>
       /\ Len(results) = Len(mods)
       /\ \A k \in 1..Len(mods) :
            \E p \in DOMAIN trace : trace[p] = [k |-> k, op |-> "read"]

\* a batch whose first attempt failed and whose second was applied
C2_Witness ==
  /\ pc = "done"
  /\ Len(results) = 2
  /\ results[1].status = "failed"
  /\ results[2].status = "applied"

C4_AppliedMeansReadBackDiffers ==
  \A r \in Finished :
    /\ r.status = "applied" =>
         r.targetWrites = 1 /\ r.readBack # Null /\ r.readBack # r.snapshot
    /\ (r.targetWrites = 1 /\ r.readBack # Null /\ r.readBack = r.snapshot) =>
         r.status = "failed"

\* one attempt wrote and read back the snapshot (reported failed), another
\* was applied
C4_Witness ==
  /\ \E r \in Finished :
       r.targetWrites = 1 /\ r.readBack = r.snapshot /\ r.status = "failed"
  /\ \E r \in Finished :
       r.status = "applied" /\ r.readBack # r.snapshot /\ r.readBack = r.edited

InitEdit ==
  /\ ApplyIdle
  /\ DiffIdle
  /\ MainIdle
  /\ \E ls \in LineSeqs(MaxEditLines) \ {<<>>}, o \in OriginalPool, sg \in SuggestedPool :
       edit = [content |-> JoinLines(ls), original |-> o, suggested |-> sg,
               pc |-> "input", newContent |-> Null]

\* the synchronous part of one loop iteration between the backup and the
\* no-op test: normalise, then edit
RunEdit ==
  /\ edit.pc = "input"
  /\ edit' = [edit EXCEPT
       !.pc = "done",
       !.newContent = EditContent(ReplaceCRLF(edit.content),
                                  NormalizeOriginal(edit.original),
                                  NormalizeSuggested(edit.suggested))]
  /\ UNCHANGED <<applyVars, diffVars, mainVars>>

NextEdit == RunEdit

SpecEdit == InitEdit /\ [][NextEdit]_vars

(***************************************************************************)
(* Properties of the edit step, checked under SpecEdit.                    *)
(***************************************************************************)
EditLines == SplitLines(ReplaceCRLF(edit.content))

EditAnchor == NormalizeOriginal(edit.original)

OccursAt(line, anchor, p) ==
  /\ p + Len(anchor) - 1 <= Len(line)
  /\ \A n \in 1..Len(anchor) : line[p + n - 1] = anchor[n]

Occurs(line, anchor) == \E p \in 1..(Len(line) + 1) : OccursAt(line, anchor, p)

\* the text of `line` before the first occurrence of `anchor`
BeforeFirst(line, anchor) ==
  LET first == CHOOSE p \in 1..(Len(line) + 1) :
                 /\ OccursAt(line, anchor, p)
                 /\ \A q \in 1..(p - 1) : ~OccursAt(line, anchor, q)
  IN  SubSeq(line, 1, first - 1)

\* s without its trailing white space
RightTrimmed(s) ==
  LET keep == CHOOSE k \in 0..Len(s) :
                /\ k = 0 \/ s[k] \notin WhiteSpace
                /\ \A m \in (k + 1)..Len(s) : s[m] \in WhiteSpace
  IN  SubSeq(s, 1, keep)

\* the lines C5 expects: a line with the anchor is cut and right-trimmed, and
\* dropped when nothing remains; any other line stays
C5_Expected(lines, anchor) ==
  LET cut(j) == RightTrimmed(BeforeFirst(lines[j], anchor))
      stays(j) == ~Occurs(lines[j], anchor) \/ cut(j) # <<>>
      kept == SelectSeq([j \in 1..Len(lines) |-> j], stays)
  IN  [n \in 1..Len(kept) |->
         IF Occurs(lines[kept[n]], anchor) THEN cut(kept[n]) ELSE lines[kept[n]]]

\* C5: with an empty normalized suggestion the edited content is the file's
\* lines where every line containing the anchor is cut at the anchor's first
\* occurrence and right-trimmed, dropped if nothing remains, and every other
\* line is unchanged and in its place.
C5_DeletionCutsMatchingLines ==
  (edit.pc = "done" /\ NormalizeSuggested(edit.suggested) = <<>>) =>
    edit.newContent = JoinLines(C5_Expected(EditLines, EditAnchor))

\* three lines: one cut to a right-trimmed remainder, one dropped, one kept
C5_Witness ==
  /\ edit.pc = "done"
  /\ NormalizeSuggested(edit.suggested) = <<>>
  /\ EditAnchor = <<"a">>
  /\ EditLines = << <<"b", " ", "a">>, <<"a", " ", "b">>, <<".">> >>
  /\ edit.newContent = <<"b", "\n", ".">>

\* C6: with a non-empty normalized suggestion every line containing the
\* anchor, taken literally, becomes the text before the anchor's first
\* occurrence followed by exactly the suggestion, and every other line is
\* unchanged.
C6_ReplacementRewritesMatchingLines ==
  (edit.pc = "done" /\ NormalizeSuggested(edit.suggested) # <<>>) =>
    edit.newContent =
      JoinLines([j \in 1..Len(EditLines) |->
                   IF Occurs(EditLines[j], EditAnchor)
                   THEN BeforeFirst(EditLines[j], EditAnchor)
                          \o NormalizeSuggested(edit.suggested)
                   ELSE EditLines[j]])

(***************************************************************************)
(* Inputs of main.                                                         *)
(***************************************************************************)
\* the reviews the service may answer with: `modifications` left out, empty,
\* or a batch
ReviewPool ==
  { [hasModifications |-> FALSE, modifications |-> <<>>],
    [hasModifications |-> TRUE, modifications |-> <<>>],
    [hasModifications |-> TRUE, modifications |-> <<ReplaceMod>>],
    [hasModifications |-> TRUE, modifications |-> <<MissingFileMod, ReplaceMod>>],
    [hasModifications |-> TRUE, modifications |-> <<SameBytesMod>>] }

\* what the service answers to the review request and to the documentation
\* request
ServiceRejections ==
  { Rejection("APIConnectionError", "Connection error."),
    Rejection("SyntaxError", "Unexpected end of JSON input") }

ReviewAnswers ==
  {JsonAnswer(rv) : rv \in ReviewPool} \union {TextAnswer} \union ServiceRejections

DocAnswers == {JsonAnswer(NoReview), TextAnswer} \union ServiceRejections

\* the messages of the errors fs.writeFile may reject with
WriteErrors == {"EACCES: permission denied"}

MainRepositories ==
  { [staged |-> <<>>, unstaged |-> <<>>, branch |-> <<>>],
    [staged |-> <<>>, unstaged |-> <<>>,
     branch |-> Terminated(<< <<"d", "i", "f", "f", " ", "-", "-", "g", "i", "t", " ", "a", "/", "f", " ", "b", "/", "f">>,
                              <<"+", "a">> >>)],
    [staged |-> <<>>, branch |-> <<>>,
     unstaged |-> Terminated(<< <<"d", "i", "f", "f", " ", "-", "-", "c", "c", " ", "f">> >>)],
    [staged |-> Terminated(<< <<"d", "i", "f", "f", " ", "-", "-", "g", "i", "t", " ", "a", "/", "f", " ", "b", "/", "f">>,
                              <<"+", "a">> >>),
     unstaged |-> <<>>, branch |-> <<>>] }

(***************************************************************************)
(* main (cli.js:24-104).                                                   *)
(***************************************************************************)
\* the catch of lines 98-101
Throw(message) ==
  /\ mpc' = "exited"
  /\ exit' = Exited(1, message)

\* lines 81-96: the documentation path, or the end of main
AfterApply(log) ==
  IF env.docs
  THEN /\ mpc' = "commits"
       /\ calls' = Append(log, "getCommitMessages")
       /\ UNCHANGED exit
  ELSE /\ mpc' = "exited"
       /\ calls' = log
       /\ exit' = Exited(0, <<>>)

\* lines 26-49: up to the call of getDiffContent
MainStart ==
  /\ mpc = "start"
  /\ IF ~env.apiKey
     THEN /\ Throw(<<"OPENAI_API_KEY environment variable not set">>)
          /\ UNCHANGED <<calls, diffVars>>
     ELSE /\ mpc' = "diff"
          /\ calls' = Append(calls, "getDiffContent")
          /\ dpc' = "staged"
          /\ UNCHANGED <<exit, git, stagedDiff, fullDiff, diffResult, gitCalls>>
  /\ UNCHANGED <<env, review, answer, editVars, applyVars>>

\* getDiffContent returned: lines 50-55
MainDiffReturned ==
  /\ mpc = "diff"
  /\ dpc = "returned"
  /\ IF diffResult.kind = "null" \/ diffResult.text = <<>>
     THEN /\ Throw(<<"No changes found to review">>)
          /\ UNCHANGED calls
     ELSE /\ mpc' = "review"
          /\ calls' = Append(calls, "generateReview")
          /\ UNCHANGED exit
  /\ UNCHANGED <<env, review, answer, editVars, applyVars, diffVars>>

\* getDiffContent threw
MainDiffThrewGoesOn ==
  /\ mpc = "diff"
  /\ dpc = "threw"
  /\ mpc' = "review"
  /\ calls' = Append(calls, "generateReview")
  /\ UNCHANGED <<env, review, answer, exit, editVars, applyVars, diffVars>>

MainDiffThrew ==
  /\ mpc = "diff"
  /\ dpc = "threw"
  /\ Throw(diffResult.text)
  /\ UNCHANGED <<env, review, answer, calls, editVars, applyVars, diffVars>>

\* the error raised inside the try block of generateReview and of
\* generateDocumentation: the rejection of the awaited call, or the
\* SyntaxError of JSON.parse
ThrownInTry(response) ==
  IF response.kind = "text"
  THEN [class |-> "SyntaxError", message |-> "Unexpected token"]
  ELSE [class |-> response.class, message |-> response.message]

\* the catch blocks of codeReviewBot.js:112-117 and part_000:396-401: the
\* error is told apart by its class
AnalysisError(error, what) ==
  IF error.class = "SyntaxError"
  THEN <<"Invalid JSON response from OpenAI: ", error.message>>
  ELSE <<"Failed to generate " \o what \o ": ", error.message>>

\* generateReview (codeReviewBot.js:91-118): the call resolves with JSON
\* that parses to a review, resolves with text that does not parse, or rejects
GenerateReview ==
  /\ mpc = "review"
  /\ IF env.service.kind = "json"
     THEN /\ review' = env.service.parsed
          /\ mpc' = "save"
          /\ calls' = Append(calls, "saveReview")
          /\ UNCHANGED exit
     ELSE /\ Throw(AnalysisError(ThrownInTry(env.service), "review"))
          /\ UNCHANGED <<review, calls>>
  /\ UNCHANGED <<env, answer, editVars, applyVars, diffVars>>

\* saveReview (codeReviewBot.js:155-162) resolves; lines 61-79 decide
SaveReviewOk ==
  /\ mpc = "save"
  /\ fs' = [fs EXCEPT ![ReportPath] = <<"#">>]
  /\ IF env.apply /\ review.hasModifications /\ Len(review.modifications) > 0
     THEN /\ mpc' = "confirm"
          /\ calls' = Append(calls, "askForConfirmation")
          /\ UNCHANGED exit
     ELSE AfterApply(calls)
  /\ UNCHANGED <<env, review, answer, editVars, diffVars,
                 mods, backupSuffix, i, pc, content, newContent, att, results, trace>>

\* saveReview rejects
SaveReviewFail ==
  /\ mpc = "save"
  /\ \E cause \in WriteErrors : Throw(<<"Failed to save review: ", cause>>)
  /\ UNCHANGED <<env, review, answer, calls, editVars, applyVars, diffVars>>

\* the respondent types a line: cli.js:17-20 and 70-76
Confirm ==
  /\ mpc = "confirm"
  /\ \E typed \in AnswerPool :
       /\ answer' = typed
       /\ IF Proceed(typed)
          THEN /\ mpc' = "applying"
               /\ calls' = Append(calls, "applyModifications")
               /\ mods' = review.modifications
               /\ backupSuffix' = ".backup"
               /\ i' = 1
               /\ pc' = "read"
               /\ UNCHANGED <<exit, fs, content, newContent, att, results, trace>>
          ELSE /\ AfterApply(calls)
               /\ UNCHANGED applyVars
  /\ UNCHANGED <<env, review, editVars, diffVars>>

\* applyModifications returned: line 73
ApplyReturned ==
  /\ mpc = "applying"
  /\ pc = "done"
  /\ AfterApply(calls)
  /\ UNCHANGED <<env, review, answer, editVars, applyVars, diffVars>>

\* getCommitMessages (part_000:366-373) resolves or rejects
GetCommitMessages ==
  /\ mpc = "commits"
  /\ \/ /\ mpc' = "document"
        /\ calls' = Append(calls, "generateDocumentation")
        /\ UNCHANGED exit
     \/ /\ \E cause \in GitErrors :
             Throw(<<"Failed to get commit messages: ", cause>>)
        /\ UNCHANGED calls
  /\ UNCHANGED <<env, review, answer, editVars, applyVars, diffVars>>

\* generateDocumentation (part_000:375-402)
GenerateDocumentation ==
  /\ mpc = "document"
  /\ IF env.docService.kind = "json"
     THEN /\ mpc' = "writeDocs"
          /\ UNCHANGED <<exit, calls>>
     ELSE /\ Throw(AnalysisError(ThrownInTry(env.docService), "documentation"))
          /\ UNCHANGED calls
  /\ UNCHANGED <<env, review, answer, editVars, applyVars, diffVars>>

\* lines 90-95: CHANGES.md is written, or the write rejects
WriteDocs ==
  /\ mpc = "writeDocs"
  /\ \/ /\ fs' = [fs EXCEPT ![DocPath] = <<"#">>]
        /\ mpc' = "exited"
        /\ exit' = Exited(0, <<>>)
     \/ /\ \E cause \in WriteErrors : Throw(<<cause>>)
        /\ UNCHANGED fs
  /\ UNCHANGED <<env, review, answer, calls, editVars, diffVars,
                 mods, backupSuffix, i, pc, content, newContent, att, results, trace>>

InitMain ==
  /\ env \in [apiKey : BOOLEAN, apply : BOOLEAN, docs : BOOLEAN,
              service : ReviewAnswers, docService : DocAnswers]
  /\ mpc = "start"
  /\ review = Null
  /\ answer = Null
  /\ calls = <<>>
  /\ exit = Running
  /\ git \in MainRepositories
  /\ dpc = "idle"
  /\ stagedDiff = Null
  /\ fullDiff = Null
  /\ diffResult = NoResult
  /\ gitCalls = <<>>
  /\ \E source \in SourceContents : fs = InitFiles(source)
  /\ ApplyEntry(<<>>, ".backup")
  /\ EditIdle

NextMain ==
  \/ MainStart
  \/ DiffStaged
  \/ DiffUnstaged
  \/ DiffBranch
  \/ DiffFail
  \/ MainDiffReturned
  \/ MainDiffThrew
  \/ GenerateReview
  \/ SaveReviewOk
  \/ SaveReviewFail
  \/ Confirm
  \/ ReadOk
  \/ ReadFail
  \/ BackupOk
  \/ BackupFail
  \/ WriteOk
  \/ WriteFail
  \/ VerifyOk
  \/ VerifyFail
  \/ ApplyReturned
  \/ GetCommitMessages
  \/ GenerateDocumentation
  \/ WriteDocs

SpecMain == InitMain /\ [][NextMain]_vars

(***************************************************************************)
(* Properties of main, checked under SpecMain.                             *)
(***************************************************************************)
Started(step) == \E n \in DOMAIN calls : calls[n] = step

\* the answers by which the respondent explicitly declines
ExplicitDecline(typed) == ToLowerCase(typed) \in {<<"n">>, <<"n", "o">>}

\* C10: applyModifications is started only after the confirmation prompt was
\* asked and answered; it is started for every answer that is not an explicit
\* decline; and after an explicit decline (n, N, no, ...) applyModifications
\* is not started and no file operation of it is issued.
C10_ApplyOnlyAfterConfirmation ==
  /\ Started("applyModifications") =>
       (Started("askForConfirmation") /\ answer # Null)
  /\ (answer # Null /\ ~ExplicitDecline(answer)) => Started("applyModifications")
  /\ (answer # Null /\ ExplicitDecline(answer)) =>
       (~Started("applyModifications") /\ trace = <<>>)

RetrievalFailed == dpc = "threw"

\* generateReview was called and has thrown
AnalysisFailed ==
  /\ Started("generateReview")
  /\ mpc # "review"
  /\ env.service.kind # "json"

\* C11: no git invocation and no pipeline step is issued twice; once a git
\* invocation of getDiffContent has rejected, main goes nowhere but to its
\* exit, nothing after getDiffContent is started and no file is written, and
\* the run ends with status 1 and the message 'Failed to get diff: ' followed
\* by the message of the rejected invocation; once generateReview has thrown,
\* the run has ended with status 1 and a message that ends with the message
\* of the error raised by the call, and no report was saved, no confirmation
\* asked and no modification attempted.
C11_RetrievalOrAnalysisFailureAborts ==
  /\ \A n, m \in DOMAIN gitCalls : gitCalls[n] = gitCalls[m] => n = m
  /\ \A n, m \in DOMAIN calls : calls[n] = calls[m] => n = m
  /\ RetrievalFailed =>
       /\ mpc \in {"diff", "exited"}
       /\ calls = <<"getDiffContent">>
       /\ answer = Null
       /\ trace = <<>>
       /\ fs[ReportPath] = NoFile
       /\ fs[DocPath] = NoFile
       /\ \E cause \in GitErrors :
            /\ diffResult = ErrorResult(<<"Failed to get diff: ", cause>>)
            /\ mpc = "exited" => exit = Exited(1, <<"Failed to get diff: ", cause>>)
  /\ AnalysisFailed =>
       /\ mpc = "exited"
       /\ calls = <<"getDiffContent", "generateReview">>
       /\ answer = Null
       /\ trace = <<>>
       /\ fs[ReportPath] = NoFile
       /\ fs[DocPath] = NoFile
       /\ exit.code = 1
       /\ Len(exit.message) = 2
       /\ exit.message[2] = ThrownInTry(env.service).message

\* the third git invocation rejected after two that resolved, and main has
\* ended with the message of the rejection
C11_Witness ==
  /\ RetrievalFailed
  /\ gitCalls = <<"diff --cached", "diff", "diff branch">>
  /\ mpc = "exited"
  /\ exit = Exited(1, <<"Failed to get diff: ", "unknown revision">>)

\* generateDocumentation was called and has thrown
DocumentationFailed ==
  /\ Started("generateDocumentation")
  /\ mpc # "document"
  /\ env.docService.kind # "json"

\* C12: when generateReview or generateDocumentation has thrown, the error
\* is the 'Invalid JSON response' one if the service resolved with a content
\* that is not JSON, and the 'Failed to generate' one if the service call
\* itself rejected, whatever it rejected with.
C12_ErrorKindTellsCause ==
  /\ AnalysisFailed =>
       exit.message[1] = IF env.service.kind = "text"
                         THEN "Invalid JSON response from OpenAI: "
                         ELSE "Failed to generate review: "
  /\ DocumentationFailed =>
       exit.message[1] = IF env.docService.kind = "text"
                         THEN "Invalid JSON response from OpenAI: "
                         ELSE "Failed to generate documentation: "

\* the staged, the unstaged and the branch diff are all blank
NoDiffAnywhere ==
  /\ Trim(git.staged \o git.unstaged) = <<>>
  /\ Trim(git.branch) = <<>>

\* C13: a run in a repository with no diff anywhere, whose git invocations
\* all resolved, ends with getDiffContent having returned null, without the
\* analysis service having been called, with no file written, and with an
\* exit status that is not an error status.
C13_NoChangesIsNotAnError ==
  (NoDiffAnywhere /\ dpc = "returned" /\ mpc = "exited") =>
    /\ diffResult = NullResult
    /\ calls = <<"getDiffContent">>
    /\ trace = <<>>
    /\ fs[ReportPath] = NoFile
    /\ fs[DocPath] = NoFile
    /\ exit.code = 0

(***************************************************************************)
(* Further properties of applyModifications, checked under Spec.           *)
(***************************************************************************)
\* the path lies in the project directory or below it
UnderRoot(path) ==
  /\ Len(path) > Len(ProjectDir)
  /\ SubSeq(path, 1, Len(ProjectDir)) = ProjectDir

\* C14: every file operation of applyModifications is on a path under the
\* project root, whatever `file` the modification names, and every file that
\* is not under the project root stays as it was at the start: not created,
\* not changed.
C14_OnlyPathsUnderProjectRoot ==
  /\ \A n \in DOMAIN trace :
       UnderRoot(JoinPath(ProjectDir, mods[trace[n].k].file))
  /\ \A p \in AllPaths : ~UnderRoot(p) => fs[p] = InitFiles(<<>>)[p]

\* the normalized anchor of the modification an attempt was for
AnchorOf(r) == NormalizeOriginal(mods[r.idx].original)

\* C15: an attempt whose read and backup succeeded ends as no-op exactly
\* when the normalized anchor does not occur in the content of the file,
\* taken with its line endings normalized as the edit step takes it.
C15_NoOpIffAnchorAbsent ==
  \A r \in Finished :
    (r.readOk /\ r.backupWritten) =>
      (r.status = "no-op" <=> ~Includes(r.normalized, AnchorOf(r)))

\* the path an attempt was for
TargetOf(r) == JoinPath(ProjectDir, mods[r.idx].file)

\* the content a file had before the batch: what it held when the first
\* attempt of the batch for that file began
BeforeBatch(path) ==
  LET first == CHOOSE k \in DOMAIN results :
                 /\ TargetOf(results[k]) = path
                 /\ \A j \in 1..(k - 1) : TargetOf(results[j]) # path
  IN  results[first].targetBefore

\* C16: when applyModifications has returned, the backup file of every file
\* written during the batch holds the content that file had before the
\* batch began.
C16_BackupHoldsContentBeforeBatch ==
  pc = "done" =>
    \A r \in Finished :
      r.targetWrites > 0 =>
        fs[BackupPath(TargetOf(r), backupSuffix)] = BeforeBatch(TargetOf(r))

====
